---- MODULE Spec2Model ----
(***************************************************************************)
(* Model of the LogiTrackPro optimizer: IRPSolver (optimizer/solver.py)    *)
(* and the /optimize endpoint (optimizer/main.py).                         *)
(*                                                                         *)
(* Units.  Python floats are modelled as exact fixed-point integers:       *)
(*   quantities (inventory, demand, capacity, delivery)  1 = 0.0001 unit   *)
(*   distances                                           1 = 1 metre       *)
(*   vehicle max_distance (km in the source)             1 = 0.001 km      *)
(*   fixed_cost, cost_per_km                             1 = 0.001         *)
(*   route cost and the cost aggregate                   1 = 0.000001      *)
(* so int(x * 1000) truncates a quantity to thousandths and round(x, 2)    *)
(* rounds to hundredths, as in the source.                                 *)
(***************************************************************************)
EXTENDS Integers, Sequences, FiniteSets, TLC

VARIABLES
    customers,          \* request.customers, in the order supplied
    vehicles,           \* request.vehicles, in the order supplied
    planning_horizon,   \* self.planning_horizon
    distance_matrix,    \* self.distance_matrix, metres, 0-based indices
    inventory,          \* self.inventory: customer id -> on-hand quantity
    day,                \* loop variable of solve()
    pc,                 \* position inside solve()
    customers_to_visit, \* result of _get_customers_needing_delivery(day)
    day_routes,         \* routes returned by _solve_day_vrp for this day
    all_routes,         \* solve(): all_routes
    total_cost,         \* solve(): total_cost (unrounded running sum)
    total_distance,     \* solve(): total_distance (unrounded running sum)
    fb,                 \* locals of _create_fallback_routes
    response,           \* the OptimizeResponse returned, or NoResponse
    inv_pre,            \* inventory as read at the start of the current day
    start_date,         \* request.start_date, a str
    solver,             \* optimize(): whether IRPSolver(...) has been called
    client,             \* the caller: which run this is, and the first answer
    parked              \* the planner state of a second request in progress

vars == << customers, vehicles, planning_horizon, distance_matrix, inventory,
           day, pc, customers_to_visit, day_routes, all_routes, total_cost,
           total_distance, fb, response, inv_pre, start_date, solver,
           client, parked >>

-----------------------------------------------------------------------------
(* Bounds of the model *)

MaxHorizon == 2

MaxCustomers == 2

\* longest horizon of a request that is planned twice
MaxRepeatHorizon == 1

\* customers of a request whose tours are long enough to have an order
TourCustomers == 3

-----------------------------------------------------------------------------
(* Dates.  A str is the sequence of its characters; a datetime is a record *)
(* of year, month and day (the time of day is fixed by the callers).       *)

Digits == << "0", "1", "2", "3", "4", "5", "6", "7", "8", "9" >>

IsDigit(ch) == \E i \in 1..Len(Digits) : Digits[i] = ch

DigitValue(ch) == (CHOOSE i \in 1..Len(Digits) : Digits[i] = ch) - 1

AllDigits(s) == \A i \in 1..Len(s) : IsDigit(s[i])

\* int() of a string of digits
RECURSIVE Number(_)
Number(s) ==
    IF s = << >> THEN 0
    ELSE 10 * Number(SubSeq(s, 1, Len(s) - 1)) + DigitValue(s[Len(s)])

\* the fields of s between the "-" of the format
RECURSIVE SplitDash(_)
SplitDash(s) ==
    IF \A i \in 1..Len(s) : s[i] # "-" THEN << s >>
    ELSE LET k == CHOOSE i \in 1..Len(s) :
                      s[i] = "-" /\ \A j \in 1..(i - 1) : s[j] # "-"
         IN  << SubSeq(s, 1, k - 1) >> \o SplitDash(SubSeq(s, k + 1, Len(s)))

IsLeap(y) == y % 4 = 0 /\ (y % 100 # 0 \/ y % 400 = 0)

DaysInMonth(y, m) ==
    IF m = 2 THEN (IF IsLeap(y) THEN 29 ELSE 28)
    ELSE IF m \in {4, 6, 9, 11} THEN 30 ELSE 31

\* %d accepts one or two digits, and a space followed by a digit
DayField(f) ==
    \/ Len(f) \in {1, 2} /\ AllDigits(f)
    \/ Len(f) = 2 /\ f[1] = " " /\ IsDigit(f[2])

DayNumber(f) == IF f[1] = " " THEN DigitValue(f[2]) ELSE Number(f)

NoDate == [ ok |-> FALSE ]

\* datetime.strptime(s, "%Y-%m-%d"): %Y is four digits, %m one or two digits
\* in 1..12, %d a day of that month; anything else raises ValueError
Strptime(s) ==
    LET f == SplitDash(s)
    IN  IF /\ Len(f) = 3
           /\ Len(f[1]) = 4 /\ AllDigits(f[1]) /\ Number(f[1]) >= 1
           /\ Len(f[2]) \in {1, 2} /\ AllDigits(f[2])
           /\ Number(f[2]) \in 1..12
           /\ DayField(f[3])
           /\ DayNumber(f[3]) \in 1..DaysInMonth(Number(f[1]), Number(f[2]))
        THEN [ ok    |-> TRUE,
               value |-> [ year  |-> Number(f[1]),
                           month |-> Number(f[2]),
                           day   |-> DayNumber(f[3]) ] ]
        ELSE NoDate

NextDay(dt) ==
    IF dt.day < DaysInMonth(dt.year, dt.month)
    THEN [ dt EXCEPT !.day = @ + 1 ]
    ELSE IF dt.month < 12
         THEN [ dt EXCEPT !.month = @ + 1, !.day = 1 ]
         ELSE [ year |-> dt.year + 1, month |-> 1, day |-> 1 ]

\* dt + timedelta(days=n)
RECURSIVE AddDays(_, _)
AddDays(dt, n) == IF n = 0 THEN dt ELSE AddDays(NextDay(dt), n - 1)

\* n as w decimal digits, zero-padded
RECURSIVE Pad(_, _)
Pad(n, w) ==
    IF w = 0 THEN << >>
    ELSE Pad(n \div 10, w - 1) \o << Digits[(n % 10) + 1] >>

\* dt.strftime("%Y-%m-%d")
Strftime(dt) ==
    Pad(dt.year, 4) \o << "-" >> \o Pad(dt.month, 2) \o << "-" >>
        \o Pad(dt.day, 2)

\* line 118: current_date = self.start_date + timedelta(days=day)
CurrentDate(d) == AddDays(Strptime(start_date).value, d)

-----------------------------------------------------------------------------
(* Arithmetic helpers *)

Min2(a, b) == IF a <= b THEN a ELSE b

Max2(a, b) == IF a >= b THEN a ELSE b

\* int(x): truncation toward zero of n / m, m > 0
TruncDiv(n, m) == IF n >= 0 THEN n \div m ELSE -((-n) \div m)

\* round(): nearest multiple of m, exact halves to the even multiple
RoundToMultiple(n, m) ==
    LET q == n \div m
        r == n % m
    IN  IF 2 * r < m THEN q * m
        ELSE IF 2 * r > m THEN (q + 1) * m
        ELSE IF q % 2 = 0 THEN q * m ELSE (q + 1) * m

RECURSIVE SumSeq(_)
SumSeq(s) == IF s = << >> THEN 0 ELSE Head(s) + SumSeq(Tail(s))

Range(s) == { s[i] : i \in 1..Len(s) }

\* sorted(): ascending sequence of a finite set of integers
RECURSIVE Sorted(_)
Sorted(S) ==
    IF S = {} THEN << >>
    ELSE LET m == CHOOSE x \in S : \A y \in S : x <= y
         IN  << m >> \o Sorted(S \ {m})

\* list.index(x), 0-based
ListIndex(s, x) == (CHOOSE i \in 1..Len(s) : s[i] = x) - 1

-----------------------------------------------------------------------------
(* Geography.  Coordinates are drawn from six points                       *)
(*   0:(0,0)  1:(0.001,0)  2:(0,0.001)  3:(0.001,0.001)  4:(-0.001,0)      *)
(*   5:(0.002,0)          (latitude, longitude in degrees)                 *)
(* and HaversineMeters tabulates int(_haversine(p, q) * 1000) for them.    *)

HaversineTable ==
    << << 0,   111, 111, 157, 111, 222 >>,
       << 111, 0,   157, 111, 222, 111 >>,
       << 111, 157, 0,   111, 157, 248 >>,
       << 157, 111, 111, 0,   248, 157 >>,
       << 111, 222, 157, 248, 0,   333 >>,
       << 222, 111, 248, 157, 333, 0   >> >>

HaversineMeters(p, q) == HaversineTable[p + 1][q + 1]

WarehousePoint == 0

\* self.customers = {c.id: c for c in customers}
CustomerIds(cs) == [ i \in 1..Len(cs) |-> cs[i].id ]

Customer(cs, cid) == cs[CHOOSE i \in 1..Len(cs) : cs[i].id = cid]

\* _build_locations: {0: warehouse} then locations[cid] = customer coords
LocationKeys(cs) == {0} \cup Range(CustomerIds(cs))

Location(cs, key) ==
    IF key \in Range(CustomerIds(cs)) THEN Customer(cs, key).point
    ELSE WarehousePoint

AllIds(cs) == Sorted(LocationKeys(cs))

\* faulty variant of ComputeDistanceMatrix for C22: only the entries above
\* the diagonal are filled in
ComputeDistanceMatrixUpper(cs) ==
    LET ids == AllIds(cs)
        n   == Len(ids)
    IN  [ i \in 0..(n - 1) |->
            [ j \in 0..(n - 1) |->
                IF i < j
                THEN HaversineMeters(Location(cs, ids[i + 1]),
                                     Location(cs, ids[j + 1]))
                ELSE 0 ] ]

\* _compute_distance_matrix
ComputeDistanceMatrix(cs) ==
    LET ids == AllIds(cs)
        n   == Len(ids)
    IN  [ i \in 0..(n - 1) |->
            [ j \in 0..(n - 1) |->
                IF i # j
                THEN HaversineMeters(Location(cs, ids[i + 1]),
                                     Location(cs, ids[j + 1]))
                ELSE 0 ] ]

-----------------------------------------------------------------------------
(* Customer selection *)

\* faulty variant of NeedsDelivery for C9: the projection test is "< 2 days"
NeedsDeliveryStrict(c, current_inv) ==
    IF c.demand_rate > 0
    THEN \/ current_inv - c.min_inventory < 2 * c.demand_rate
         \/ current_inv <= c.min_inventory
    ELSE current_inv <= c.min_inventory

\* the test of lines 159-168 for one customer; (inv - min) / demand <= 2
\* is inv - min <= 2 * demand for demand > 0
NeedsDelivery(c, current_inv) ==
    IF c.demand_rate > 0
    THEN \/ current_inv - c.min_inventory <= 2 * c.demand_rate
         \/ current_inv <= c.min_inventory
    ELSE current_inv <= c.min_inventory

\* sort key of line 172, compared as Python compares tuples
KeyLess(a, b) ==
    \/ -a.priority < -b.priority
    \/ /\ -a.priority = -b.priority
       /\ -a.demand_rate < -b.demand_rate

\* list.sort(key=...): stable, equal keys keep their list order
RECURSIVE StableInsert(_, _, _)
StableInsert(cs, s, cid) ==
    IF s = << >> THEN << cid >>
    ELSE IF KeyLess(Customer(cs, cid), Customer(cs, Head(s)))
         THEN << cid >> \o s
         ELSE << Head(s) >> \o StableInsert(cs, Tail(s), cid)

RECURSIVE StableSort(_, _)
StableSort(cs, s) ==
    IF s = << >> THEN << >>
    ELSE StableInsert(cs, StableSort(cs, SubSeq(s, 1, Len(s) - 1)), s[Len(s)])

\* _get_customers_needing_delivery
GetCustomersNeedingDelivery(cs, inv) ==
    LET ids     == CustomerIds(cs)
        needing == SelectSeq(ids, LAMBDA cid :
                                NeedsDelivery(Customer(cs, cid), inv[cid]))
    IN  StableSort(cs, needing)

\* faulty variant of UpdateInventory for C5: the max(0, ...) is dropped
UpdateInventoryUnclamped(cs, inv) ==
    [ cid \in DOMAIN inv |-> inv[cid] - Customer(cs, cid).demand_rate ]

\* faulty variant of UpdateInventory for C24: the day's demand is added
UpdateInventoryAdds(cs, inv) ==
    [ cid \in DOMAIN inv |-> inv[cid] + Customer(cs, cid).demand_rate ]

\* _update_inventory
UpdateInventory(cs, inv) ==
    [ cid \in DOMAIN inv |->
        Max2(0, inv[cid] - Customer(cs, cid).demand_rate) ]

-----------------------------------------------------------------------------
(* Report construction, shared by both route producers *)

\* index of a location id in sorted(self.locations.keys())
IdIndex(cs, id) == ListIndex(AllIds(cs), id)

\* round(x, 2) of a delivery quantity
RoundQuantity(q) == RoundToMultiple(q, 100)

\* round(route_distance_km, 2), kept in metres
RoundDistance(m) == RoundToMultiple(m, 10)

\* round(route_cost, 2), kept in millionths
RoundCost(c) == RoundToMultiple(c, 10000)

\* faulty variant of RouteCost for C7: the fixed cost is left out
RouteCostNoFixed(v, meters) == meters * v.cost_per_km

\* vehicle.fixed_cost + route_distance_km * vehicle.cost_per_km, in millionths
RouteCost(v, meters) == v.fixed_cost * 1000 + meters * v.cost_per_km

\* timedelta(hours=dist_km / avg_speed) at 50 km/h, in milliseconds
TravelMs(meters) == meters * 72

\* elapsed time since 08:00 on arrival at the k-th customer of the route:
\* the legs travelled so far plus 15 minutes of service per earlier stop
RECURSIVE ArrivalMs(_, _, _, _)
ArrivalMs(cs, dm, rc, k) ==
    IF k = 0 THEN 0
    ELSE LET prev_loc == IF k = 1 THEN 0 ELSE rc[k - 1]
             leg      == dm[IdIndex(cs, prev_loc)][IdIndex(cs, rc[k])]
         IN  ArrivalMs(cs, dm, rc, k - 1)
               + (IF k = 1 THEN 0 ELSE 900000) + TravelMs(leg)

\* strftime("%H:%M") of 08:00 + elapsed, as minutes after midnight
ClockMinutes(ms) == ((8 * 3600000 + ms) \div 60000) % 1440

\* faulty variant of MakeStops for C8: enumerate() starts at 0
MakeStopsZeroBased(cs, dm, rc, deliveries) ==
    [ k \in 1..Len(rc) |->
        [ customer_id  |-> rc[k],
          sequence     |-> k - 1,
          quantity     |-> RoundQuantity(deliveries[rc[k]]),
          arrival_time |-> ClockMinutes(ArrivalMs(cs, dm, rc, k)) ] ]

\* the loop "for seq, cid in enumerate(route_customers, 1)"
MakeStops(cs, dm, rc, deliveries) ==
    [ k \in 1..Len(rc) |->
        [ customer_id  |-> rc[k],
          sequence     |-> k,
          quantity     |-> RoundQuantity(deliveries[rc[k]]),
          arrival_time |-> ClockMinutes(ArrivalMs(cs, dm, rc, k)) ] ]

\* faulty variant of MakeRoute for C14: the loop index is reported as the day
MakeRouteZeroBasedDay(cs, dm, d, v, rc, deliveries, meters) ==
    [ day            |-> d,
      date           |-> Strftime(CurrentDate(d)),
      vehicle_id     |-> v.id,
      total_distance |-> RoundDistance(meters),
      total_cost     |-> RoundCost(RouteCost(v, meters)),
      total_load     |-> RoundQuantity(
                            SumSeq([ k \in 1..Cardinality(DOMAIN deliveries) |->
                                deliveries[Sorted(DOMAIN deliveries)[k]] ])),
      stops          |-> MakeStops(cs, dm, rc, deliveries) ]

\* RouteResult(...)
MakeRoute(cs, dm, d, v, rc, deliveries, meters) ==
    [ day            |-> d + 1,
      date           |-> Strftime(CurrentDate(d)),
      vehicle_id     |-> v.id,
      total_distance |-> RoundDistance(meters),
      total_cost     |-> RoundCost(RouteCost(v, meters)),
      total_load     |-> RoundQuantity(
                            SumSeq([ k \in 1..Cardinality(DOMAIN deliveries) |->
                                deliveries[Sorted(DOMAIN deliveries)[k]] ])),
      stops          |-> MakeStops(cs, dm, rc, deliveries) ]

-----------------------------------------------------------------------------
(* _create_fallback_routes *)

\* iteration order of list(unassigned): a CPython set of small non-negative
\* integers with pairwise different residues modulo 8 is walked by slot
RECURSIVE SetOrder(_)
SetOrder(S) ==
    IF S = {} THEN << >>
    ELSE LET m == CHOOSE x \in S : \A y \in S : x % 8 <= y % 8
         IN  << m >> \o SetOrder(S \ {m})

\* lines 417-421: the quantity tested inside the candidate scan
CandidateQty(c, inv, remaining_capacity) ==
    Min2(Min2(c.max_inventory - inv[c.id], remaining_capacity), c.max_inventory)

\* lines 409-431: the scan for the nearest unassigned customer; the strict
\* "dist < best_distance" keeps the first minimum met.  {} is None.
BestCustomer(cs, dm, inv, unassigned, current_location, remaining_capacity) ==
    LET order == SetOrder(unassigned)
        cur   == IdIndex(cs, current_location)
        ok(i) == CandidateQty(Customer(cs, order[i]), inv, remaining_capacity) > 0
        d(i)  == dm[cur][IdIndex(cs, order[i])]
        best  == { j \in 1..Len(order) :
                     /\ ok(j)
                     /\ \A l \in 1..Len(order) :
                          ok(l) => \/ d(j) < d(l)
                                   \/ d(j) = d(l) /\ j <= l }
    IN  { order[i] : i \in best }

\* faulty variant of FallbackDeliveryQty for C1: the remaining capacity is
\* not taken into account
FallbackDeliveryQtyUncapped(c, inv, remaining_capacity) ==
    c.max_inventory - inv[c.id]

\* faulty variant of FallbackDeliveryQty for C13: the inventory on hand is
\* not subtracted
FallbackDeliveryQtyFull(c, inv, remaining_capacity) ==
    Min2(c.max_inventory, remaining_capacity)

\* lines 437-440: the quantity delivered to the chosen customer
FallbackDeliveryQty(c, inv, remaining_capacity) ==
    Min2(c.max_inventory - inv[c.id], remaining_capacity)

\* faulty variant of DiscardCustomer for C3: the customer stays unassigned
DiscardCustomerKept(unassigned, cid) == unassigned

\* line 446
DiscardCustomer(unassigned, cid) == unassigned \ {cid}

\* lines 451-463: warehouse -> first, between customers, last -> warehouse
FallbackRouteDistance(cs, dm, rc) ==
    dm[0][IdIndex(cs, rc[1])]
    + SumSeq([ i \in 1..(Len(rc) - 1) |->
                 dm[IdIndex(cs, rc[i])][IdIndex(cs, rc[i + 1])] ])
    + dm[IdIndex(cs, rc[Len(rc)])][0]

FbIdle == [ routes |-> << >>, unassigned |-> {}, vehicle_index |-> 0,
            route_customers |-> << >>, route_deliveries |-> << >>,
            current_location |-> 0, remaining_capacity |-> 0 ]

-----------------------------------------------------------------------------
(* _solve_day_vrp: the routing model handed to OR-Tools and the extraction *)

\* int(x * 1000) of a quantity
ToGrams(q) == TruncDiv(q, 10)

\* grams / 1000.0
FromGrams(g) == g * 10

\* demand_callback for a customer node
DemandCallback(c, inv) ==
    ToGrams(Min2(c.max_inventory - inv[c.id], c.max_inventory))

\* distance_callback between two location ids
DistanceCallback(cs, dm, from_id, to_id) ==
    dm[IdIndex(cs, from_id)][IdIndex(cs, to_id)]

\* the capacity of the 'Distance' dimension
DistanceDimensionCapacity == 300000000

\* the arcs start -> stops -> end of one vehicle, as pairs of location ids
RouteArcs(rc) ==
    [ i \in 1..(Len(rc) + 1) |->
        << IF i = 1 THEN 0 ELSE rc[i - 1],
           IF i = Len(rc) + 1 THEN 0 ELSE rc[i] >> ]

\* cumulated distance_callback along the arcs of a vehicle
ArcDistance(cs, dm, rc) ==
    SumSeq([ i \in 1..(Len(rc) + 1) |->
               DistanceCallback(cs, dm, RouteArcs(rc)[i][1], RouteArcs(rc)[i][2]) ])

\* lines 278-282: the bound is put on the cumul variable of the vehicle's
\* START node, which "start cumul to zero" has fixed to 0
StartCumulWithinMax(v) ==
    v.max_distance > 0 => 0 <= v.max_distance

\* 'Capacity' dimension: slack 0, start at 0, every cumul in [0, capacity]
CapacityDimensionOk(cs, inv, v, rc) ==
    \A k \in 0..Len(rc) :
        LET cumul == SumSeq([ i \in 1..k |-> DemandCallback(Customer(cs, rc[i]), inv) ])
        IN  cumul >= 0 /\ cumul <= ToGrams(v.capacity)

\* 'Distance' dimension: slack 0, start at 0, every cumul in [0, 300000000]
DistanceDimensionOk(cs, dm, v, rc) ==
    /\ ArcDistance(cs, dm, rc) <= DistanceDimensionCapacity
    /\ StartCumulWithinMax(v)

RECURSIVE Perms(_)
Perms(S) ==
    IF S = {} THEN { << >> }
    ELSE UNION { { << x >> \o p : p \in Perms(S \ {x}) } : x \in S }

\* what SolveWithParameters may return: every node is mandatory (no
\* disjunction is added), so each customer to visit is on exactly one
\* vehicle, and both dimensions hold on every vehicle
OrtoolsSolutions(cs, vs, dm, inv, ctv) ==
    LET orderings == UNION { Perms(T) : T \in SUBSET Range(ctv) }
    IN  { sol \in [ 1..Len(vs) -> orderings ] :
            /\ \A cid \in Range(ctv) :
                 Cardinality({ i \in 1..Len(vs) : cid \in Range(sol[i]) }) = 1
            /\ \A i \in 1..Len(vs) :
                 /\ CapacityDimensionOk(cs, inv, vs[i], sol[i])
                 /\ DistanceDimensionOk(cs, dm, vs[i], sol[i]) }

\* lines 322-325: route_deliveries of one vehicle
OrtoolsDeliveries(cs, inv, rc) ==
    [ cid \in Range(rc) |-> FromGrams(DemandCallback(Customer(cs, cid), inv)) ]

\* lines 327-335 and 365-371: the cumulated arcs, then the return leg added
OrtoolsRouteDistance(cs, dm, rc) ==
    ArcDistance(cs, dm, rc) + dm[IdIndex(cs, rc[Len(rc)])][0]

\* lines 306-382: one RouteResult per vehicle that has customers
RECURSIVE ExtractRoutes(_, _, _, _, _, _, _)
ExtractRoutes(cs, vs, dm, inv, d, sol, i) ==
    IF i > Len(vs) THEN << >>
    ELSE (IF sol[i] = << >> THEN << >>
          ELSE << MakeRoute(cs, dm, d, vs[i], sol[i],
                            OrtoolsDeliveries(cs, inv, sol[i]),
                            OrtoolsRouteDistance(cs, dm, sol[i])) >>)
         \o ExtractRoutes(cs, vs, dm, inv, d, sol, i + 1)

-----------------------------------------------------------------------------
(* Requests explored.  Every attribute respects the input domain of the    *)
(* service: demand_rate >= 0, min_inventory >= 0, max_inventory >          *)
(* min_inventory, current_inventory >= 0, capacity > 0, costs >= 0.        *)

CustomerProfiles ==
    { \* 0.0267 short of max: the delivery rounds up to 0.03
      [ demand_rate |-> 100, min_inventory |-> 100, max_inventory |-> 300,
        current_inventory |-> 33, priority |-> 1 ],
      \* at max and two days from the reorder point
      [ demand_rate |-> 100, min_inventory |-> 100, max_inventory |-> 300,
        current_inventory |-> 300, priority |-> 1 ],
      \* 0.004 short of max, higher priority
      [ demand_rate |-> 100, min_inventory |-> 100, max_inventory |-> 300,
        current_inventory |-> 260, priority |-> 2 ],
      \* no demand, at the reorder point
      [ demand_rate |-> 0, min_inventory |-> 100, max_inventory |-> 300,
        current_inventory |-> 100, priority |-> 1 ],
      \* three days from the reorder point: first selected on the second day
      [ demand_rate |-> 100, min_inventory |-> 100, max_inventory |-> 1000,
        current_inventory |-> 400, priority |-> 1 ],
      \* demand above the stock on hand
      [ demand_rate |-> 200, min_inventory |-> 0, max_inventory |-> 200,
        current_inventory |-> 100, priority |-> 1 ] }

\* the first two customers of a request take any profile, later ones the
\* profiles with demand 0.01 and stock below max
ProfileChoices(i) ==
    IF i <= 2 THEN CustomerProfiles
    ELSE { p \in CustomerProfiles :
             /\ p.demand_rate = 100
             /\ p.current_inventory < p.max_inventory
             /\ p.max_inventory = 300 }

MakeCustomer(id, point, profile) ==
    [ id |-> id, point |-> point,
      demand_rate |-> profile.demand_rate,
      min_inventory |-> profile.min_inventory,
      max_inventory |-> profile.max_inventory,
      current_inventory |-> profile.current_inventory,
      priority |-> profile.priority ]

\* customer ids in the order supplied: ascending, descending, and 8 first
IdOrders(n) ==
    IF n = 0 THEN { << >> }
    ELSE IF n = 1 THEN { << 1 >> }
    ELSE { [ i \in 1..n |-> i ],
           [ i \in 1..n |-> n + 1 - i ],
           [ i \in 1..n |-> IF i = 1 THEN 8 ELSE i - 1 ] }

PointChoices(i) == IF i = 1 THEN {1, 3} ELSE IF i = 2 THEN {2} ELSE {5}

CustomerLists ==
    UNION { { [ i \in 1..n |-> MakeCustomer(ids[i], pts[i], profs[i]) ] :
                ids \in IdOrders(n),
                pts \in { f \in [ 1..n -> 1..5 ] :
                            \A i \in 1..n : f[i] \in PointChoices(i) },
                profs \in { f \in [ 1..n -> CustomerProfiles ] :
                              \A i \in 1..n : f[i] \in ProfileChoices(i) } } :
            n \in 0..MaxCustomers }

LargeVehicle ==
    [ capacity |-> 50000, cost_per_km |-> 1000, fixed_cost |-> 100000,
      max_distance |-> 0 ]

\* capacity 0.0266, range 0.2 km
SmallVehicle ==
    [ capacity |-> 266, cost_per_km |-> 2500, fixed_cost |-> 0,
      max_distance |-> 200 ]

\* capacity 0.03, range 1 km
MediumVehicle ==
    [ capacity |-> 300, cost_per_km |-> 1500, fixed_cost |-> 50000,
      max_distance |-> 1000 ]

Fleets ==
    { << >>,
      << LargeVehicle >>, << SmallVehicle >>, << MediumVehicle >>,
      << SmallVehicle, LargeVehicle >>, << MediumVehicle, SmallVehicle >> }

\* self.vehicles = {v.id: v for v in vehicles}; ids 1, 2, ... as supplied
VehicleLists ==
    { [ i \in 1..Len(fl) |->
          [ id |-> i, capacity |-> fl[i].capacity,
            cost_per_km |-> fl[i].cost_per_km,
            fixed_cost |-> fl[i].fixed_cost,
            max_distance |-> fl[i].max_distance ] ] :
        fl \in Fleets }

\* start_date strings that parse: a year's last day, and an unpadded one
\* whose next day is the leap day
StartDates ==
    { << "2", "0", "2", "3", "-", "1", "2", "-", "3", "1" >>,
      << "2", "0", "2", "4", "-", "2", "-", "2", "8" >> }

\* start_date strings that do not parse: a day the month does not have, a
\* month out of range, another format, the empty string
BadStartDates ==
    { << "2", "0", "2", "3", "-", "0", "2", "-", "3", "0" >>,
      << "2", "0", "2", "3", "-", "1", "3", "-", "0", "1" >>,
      << "3", "1", "/", "1", "2", "/", "2", "0", "2", "3" >>,
      << >> }

-----------------------------------------------------------------------------
(* State machine of IRPSolver.__init__ and IRPSolver.solve *)

\* requests of up to two customers are planned over every horizon up to
\* MaxHorizon, larger requests over at most one day
HorizonChoices(cs) == IF Len(cs) <= 2 THEN 0..MaxHorizon ELSE 0..1

\* requests of at most one customer start on every date of StartDates,
\* larger requests on the last day of the year
StartDateChoices(cs) ==
    IF Len(cs) <= 1 THEN StartDates
    ELSE { d \in StartDates : Strptime(d).value.month = 12 }

NoResponse == [ kind |-> "none" ]

\* no second request is in progress
NoInstance == [ pc |-> "absent" ]

\* the caller has sent nothing before this request
FirstRun == [ run |-> 1, first |-> NoResponse ]

\* IRPSolver.__init__, then the first three lines of solve()
Init ==
    /\ customers \in CustomerLists
    /\ vehicles \in VehicleLists
    /\ planning_horizon \in HorizonChoices(customers)
    /\ distance_matrix = ComputeDistanceMatrix(customers)
    /\ inventory = [ cid \in Range(CustomerIds(customers)) |->
                       Customer(customers, cid).current_inventory ]
    /\ inv_pre = inventory
    /\ day = 0
    /\ pc = "loop"
    /\ customers_to_visit = << >>
    /\ day_routes = << >>
    /\ all_routes = << >>
    /\ total_cost = 0
    /\ total_distance = 0
    /\ fb = FbIdle
    /\ response = NoResponse
    /\ start_date \in StartDateChoices(customers)
    /\ solver = "constructed"
    /\ client = FirstRun
    /\ parked = NoInstance

Request == << customers, vehicles, planning_horizon, start_date,
             distance_matrix >>

\* what solve() never touches: the IRPSolver object's existence and the caller
Caller == << solver, client, parked >>

\* faulty variant of ReturnResponse for C15: success needs a planned route
ReturnResponseNeedsRoutes ==
    /\ pc = "loop"
    /\ day = planning_horizon
    /\ response' = [ kind |-> "response",
                     success |-> all_routes # << >>,
                     message |-> << "Optimization complete", Len(all_routes),
                                    "routes generated using OR-Tools" >>,
                     total_cost |-> RoundCost(total_cost),
                     total_distance |-> RoundDistance(total_distance),
                     routes |-> all_routes ]
    /\ pc' = "done"
    /\ UNCHANGED << Request, Caller, inventory, day, customers_to_visit,
                    day_routes, all_routes, total_cost, total_distance, fb,
                    inv_pre >>

\* lines 143-149
ReturnResponse ==
    /\ pc = "loop"
    /\ day = planning_horizon
    /\ response' = [ kind |-> "response",
                     success |-> TRUE,
                     message |-> << "Optimization complete", Len(all_routes),
                                    "routes generated using OR-Tools" >>,
                     total_cost |-> RoundCost(total_cost),
                     total_distance |-> RoundDistance(total_distance),
                     routes |-> all_routes ]
    /\ pc' = "done"
    /\ UNCHANGED << Request, Caller, inventory, day, customers_to_visit, day_routes,
                    all_routes, total_cost, total_distance, fb, inv_pre >>

\* lines 117-126: a day on which no customer is selected
SkipDay ==
    /\ pc = "loop"
    /\ day < planning_horizon
    /\ GetCustomersNeedingDelivery(customers, inventory) = << >>
    /\ customers_to_visit' = << >>
    /\ day_routes' = << >>
    /\ inv_pre' = inventory
    /\ inventory' = UpdateInventory(customers, inventory)
    /\ day' = day + 1
    /\ UNCHANGED << Request, Caller, pc, all_routes, total_cost, total_distance, fb,
                    response >>

\* faulty variant of BeginDay for C18: the loop runs planning_horizon + 1 days
BeginDayInclusive ==
    /\ pc = "loop"
    /\ day <= planning_horizon
    /\ GetCustomersNeedingDelivery(customers, inventory) # << >>
    /\ customers_to_visit' = GetCustomersNeedingDelivery(customers, inventory)
    /\ day_routes' = << >>
    /\ inv_pre' = inventory
    /\ pc' = "vrp"
    /\ UNCHANGED << Request, Caller, inventory, day, all_routes, total_cost,
                    total_distance, fb, response >>

\* lines 117-129: customers are selected and _solve_day_vrp is entered
BeginDay ==
    /\ pc = "loop"
    /\ day < planning_horizon
    /\ GetCustomersNeedingDelivery(customers, inventory) # << >>
    /\ customers_to_visit' = GetCustomersNeedingDelivery(customers, inventory)
    /\ day_routes' = << >>
    /\ inv_pre' = inventory
    /\ pc' = "vrp"
    /\ UNCHANGED << Request, Caller, inventory, day, all_routes, total_cost,
                    total_distance, fb, response >>

\* lines 296-384: SolveWithParameters returns a solution, routes are extracted
SolverReturnsSolution ==
    /\ pc = "vrp"
    /\ \E sol \in OrtoolsSolutions(customers, vehicles, distance_matrix,
                                   inventory, customers_to_visit) :
         day_routes' = ExtractRoutes(customers, vehicles, distance_matrix,
                                     inventory, day, sol, 1)
    /\ pc' = "commit"
    /\ UNCHANGED << Request, Caller, inventory, day, customers_to_visit, all_routes,
                    total_cost, total_distance, fb, response, inv_pre >>

\* lines 298-300 and 392-395: no solution (infeasible model, or none found
\* within the time limit), _create_fallback_routes is entered
SolverReturnsNone ==
    /\ pc = "vrp"
    /\ fb' = [ FbIdle EXCEPT !.unassigned = Range(customers_to_visit) ]
    /\ pc' = "fb_outer"
    /\ UNCHANGED << Request, Caller, inventory, day, customers_to_visit, day_routes,
                    all_routes, total_cost, total_distance, response, inv_pre >>

\* a lookup of the routing callbacks fails (index_to_customer_id has no
\* entry for a vehicle's start or end index): the exception leaves solve()
SolverRaises ==
    /\ pc = "vrp"
    /\ pc' = "error"
    /\ UNCHANGED << Request, Caller, inventory, day, customers_to_visit, day_routes,
                    all_routes, total_cost, total_distance, fb, response,
                    inv_pre >>

\* lines 397-405: the outer loop takes the next vehicle
FallbackStartVehicle ==
    /\ pc = "fb_outer"
    /\ fb.unassigned # {}
    /\ fb.vehicle_index < Len(vehicles)
    /\ fb' = [ fb EXCEPT !.route_customers = << >>,
                         !.route_deliveries = << >>,
                         !.current_location = 0,
                         !.remaining_capacity =
                             vehicles[fb.vehicle_index + 1].capacity ]
    /\ pc' = "fb_inner"
    /\ UNCHANGED << Request, Caller, inventory, day, customers_to_visit, day_routes,
                    all_routes, total_cost, total_distance, response, inv_pre >>

FallbackBest ==
    BestCustomer(customers, distance_matrix, inventory, fb.unassigned,
                 fb.current_location, fb.remaining_capacity)

FallbackInnerContinues ==
    /\ fb.unassigned # {}
    /\ fb.remaining_capacity > 0
    /\ FallbackBest # {}

\* lines 407-446: one iteration of the inner loop appends the nearest customer
FallbackAddCustomer ==
    /\ pc = "fb_inner"
    /\ FallbackInnerContinues
    /\ \E best \in FallbackBest :
         LET qty == FallbackDeliveryQty(Customer(customers, best), inventory,
                                        fb.remaining_capacity)
         IN  fb' = [ fb EXCEPT
                       !.route_customers = Append(@, best),
                       !.route_deliveries =
                           [ cid \in DOMAIN @ \cup {best} |->
                               IF cid = best THEN qty ELSE @[cid] ],
                       !.remaining_capacity = @ - qty,
                       !.current_location = best,
                       !.unassigned = DiscardCustomer(@, best) ]
    /\ UNCHANGED << Request, Caller, inventory, day, pc, customers_to_visit,
                    day_routes, all_routes, total_cost, total_distance,
                    response, inv_pre >>

\* lines 448-502: the inner loop has ended; a non-empty route is reported
FallbackCloseRoute ==
    /\ pc = "fb_inner"
    /\ ~ FallbackInnerContinues
    /\ fb' = [ fb EXCEPT
                 !.routes =
                     IF fb.route_customers = << >> THEN @
                     ELSE Append(@, MakeRoute(customers, distance_matrix, day,
                                    vehicles[fb.vehicle_index + 1],
                                    fb.route_customers, fb.route_deliveries,
                                    FallbackRouteDistance(customers,
                                        distance_matrix, fb.route_customers))),
                 !.vehicle_index = @ + 1 ]
    /\ pc' = "fb_outer"
    /\ UNCHANGED << Request, Caller, inventory, day, customers_to_visit, day_routes,
                    all_routes, total_cost, total_distance, response, inv_pre >>

\* line 504: the outer loop has ended
FallbackReturn ==
    /\ pc = "fb_outer"
    /\ ~ (fb.unassigned # {} /\ fb.vehicle_index < Len(vehicles))
    /\ day_routes' = fb.routes
    /\ fb' = FbIdle
    /\ pc' = "commit"
    /\ UNCHANGED << Request, Caller, inventory, day, customers_to_visit, all_routes,
                    total_cost, total_distance, response, inv_pre >>

\* lines 137-138 for the stops of one route
RECURSIVE ApplyStops(_, _)
ApplyStops(inv, stops) ==
    IF stops = << >> THEN inv
    ELSE ApplyStops([ inv EXCEPT ![Head(stops).customer_id] =
                                     @ + Head(stops).quantity ],
                    Tail(stops))

\* lines 131-138 for the routes of the day
RECURSIVE ApplyDeliveries(_, _)
ApplyDeliveries(inv, routes) ==
    IF routes = << >> THEN inv
    ELSE ApplyDeliveries(ApplyStops(inv, Head(routes).stops), Tail(routes))

\* faulty variant of CommitDeliveries for C12: the day's demand is taken
\* before the deliveries are added
CommitDeliveriesAfterDemand ==
    /\ pc = "commit"
    /\ all_routes' = all_routes \o day_routes
    /\ total_cost' = total_cost
           + SumSeq([ i \in 1..Len(day_routes) |-> day_routes[i].total_cost ])
    /\ total_distance' = total_distance
           + SumSeq([ i \in 1..Len(day_routes) |-> day_routes[i].total_distance ])
    /\ inventory' = ApplyDeliveries(UpdateInventory(customers, inventory),
                                    day_routes)
    /\ day' = day + 1
    /\ pc' = "loop"
    /\ UNCHANGED << Request, Caller, customers_to_visit, day_routes, fb,
                    response, inv_pre >>

\* lines 131-138: the day's routes are recorded and their deliveries applied
CommitDeliveries ==
    /\ pc = "commit"
    /\ all_routes' = all_routes \o day_routes
    /\ total_cost' = total_cost
           + SumSeq([ i \in 1..Len(day_routes) |-> day_routes[i].total_cost ])
    /\ total_distance' = total_distance
           + SumSeq([ i \in 1..Len(day_routes) |-> day_routes[i].total_distance ])
    /\ inventory' = ApplyDeliveries(inventory, day_routes)
    /\ pc' = "consume"
    /\ UNCHANGED << Request, Caller, day, customers_to_visit, day_routes, fb, response,
                    inv_pre >>

\* line 141 and the loop increment
ConsumeDemand ==
    /\ pc = "consume"
    /\ inventory' = UpdateInventory(customers, inventory)
    /\ day' = day + 1
    /\ pc' = "loop"
    /\ UNCHANGED << Request, Caller, customers_to_visit, day_routes, all_routes,
                    total_cost, total_distance, fb, response, inv_pre >>

Next ==
    \/ ReturnResponse
    \/ SkipDay
    \/ BeginDay
    \/ SolverReturnsSolution
    \/ SolverReturnsNone
    \/ SolverRaises
    \/ FallbackStartVehicle
    \/ FallbackAddCustomer
    \/ FallbackCloseRoute
    \/ FallbackReturn
    \/ CommitDeliveries
    \/ ConsumeDemand

Spec == Init /\ [][Next]_vars

-----------------------------------------------------------------------------
(* The /optimize endpoint (main.py): one request, answered by a new        *)
(* IRPSolver                                                               *)

\* the request body as pydantic accepts it: start_date is any str
InitApi ==
    /\ customers \in CustomerLists
    /\ vehicles \in VehicleLists
    /\ planning_horizon \in HorizonChoices(customers)
    /\ start_date \in StartDateChoices(customers) \cup BadStartDates
    /\ distance_matrix = << >>
    /\ inventory = << >>
    /\ inv_pre = << >>
    /\ day = 0
    /\ pc = "api"
    /\ customers_to_visit = << >>
    /\ day_routes = << >>
    /\ all_routes = << >>
    /\ total_cost = 0
    /\ total_distance = 0
    /\ fb = FbIdle
    /\ response = NoResponse
    /\ solver = "none"
    /\ client = FirstRun
    /\ parked = NoInstance

\* faulty variant of ApiValidate for C16: the vehicles are tested first
ApiValidateVehiclesFirst(cs, vs) ==
    IF vs = << >> THEN "No vehicles provided"
    ELSE IF cs = << >> THEN "No customers provided"
    ELSE "ok"

\* faulty variant of ApiValidate for C17: the vehicles are not tested
ApiValidateCustomersOnly(cs, vs) ==
    IF cs = << >> THEN "No customers provided" ELSE "ok"

\* the tests of lines 116 and 125, in that order
ApiValidate(cs, vs) ==
    IF cs = << >> THEN "No customers provided"
    ELSE IF vs = << >> THEN "No vehicles provided"
    ELSE "ok"

\* lines 116-132: the structured refusal
ApiReject ==
    /\ pc = "api"
    /\ ApiValidate(customers, vehicles) # "ok"
    /\ response' = [ kind |-> "response",
                     success |-> FALSE,
                     message |-> << ApiValidate(customers, vehicles) >>,
                     total_cost |-> 0,
                     total_distance |-> 0,
                     routes |-> << >> ]
    /\ pc' = "done"
    /\ UNCHANGED << Request, Caller, inventory, day, customers_to_visit,
                    day_routes, all_routes, total_cost, total_distance, fb,
                    inv_pre >>

\* lines 135-144: IRPSolver(...) runs __init__ to its end, solve() is entered
ApiConstructSolver ==
    /\ pc = "api"
    /\ ApiValidate(customers, vehicles) = "ok"
    /\ Strptime(start_date).ok
    /\ solver' = "constructed"
    /\ distance_matrix' = ComputeDistanceMatrix(customers)
    /\ inventory' = [ cid \in Range(CustomerIds(customers)) |->
                        Customer(customers, cid).current_inventory ]
    /\ inv_pre' = inventory'
    /\ pc' = "loop"
    /\ UNCHANGED << customers, vehicles, planning_horizon, start_date, client,
                    parked,
                    day, customers_to_visit, day_routes, all_routes,
                    total_cost, total_distance, fb, response >>

\* lines 135-141: IRPSolver(...) is called and strptime raises in __init__
ApiConstructSolverRaises ==
    /\ pc = "api"
    /\ ApiValidate(customers, vehicles) = "ok"
    /\ ~ Strptime(start_date).ok
    /\ solver' = "raised"
    /\ pc' = "error"
    /\ UNCHANGED << Request, client, parked, inventory, day, customers_to_visit,
                    day_routes, all_routes, total_cost, total_distance, fb,
                    response, inv_pre >>

\* lines 151-153: any exception becomes HTTP 500
ApiHandleException ==
    /\ pc = "error"
    /\ response' = [ kind |-> "http_error", status_code |-> 500 ]
    /\ pc' = "done"
    /\ UNCHANGED << Request, Caller, inventory, day, customers_to_visit,
                    day_routes, all_routes, total_cost, total_distance, fb,
                    inv_pre >>

NextApi ==
    \/ ApiReject
    \/ ApiConstructSolver
    \/ ApiConstructSolverRaises
    \/ ApiHandleException
    \/ ReturnResponse
    \/ SkipDay
    \/ BeginDay
    \/ SolverReturnsSolution
    \/ SolverReturnsNone
    \/ SolverRaises
    \/ FallbackStartVehicle
    \/ FallbackAddCustomer
    \/ FallbackCloseRoute
    \/ FallbackReturn
    \/ CommitDeliveries
    \/ ConsumeDemand

SpecApi == InitApi /\ [][NextApi]_vars

-----------------------------------------------------------------------------
(* The same request planned twice, each time by a new IRPSolver            *)

\* the caller keeps the first answer and sends the request again
RunAgain ==
    /\ pc = "done"
    /\ client.run = 1
    /\ client' = [ run |-> 2, first |-> response ]
    /\ inventory' = [ cid \in Range(CustomerIds(customers)) |->
                        Customer(customers, cid).current_inventory ]
    /\ inv_pre' = inventory'
    /\ day' = 0
    /\ pc' = "loop"
    /\ customers_to_visit' = << >>
    /\ day_routes' = << >>
    /\ all_routes' = << >>
    /\ total_cost' = 0
    /\ total_distance' = 0
    /\ fb' = FbIdle
    /\ response' = NoResponse
    /\ UNCHANGED << Request, solver, parked >>

NextRepeat ==
    \/ RunAgain
    \/ ReturnResponse
    \/ SkipDay
    \/ BeginDay
    \/ SolverReturnsSolution
    \/ SolverReturnsNone
    \/ SolverRaises
    \/ FallbackStartVehicle
    \/ FallbackAddCustomer
    \/ FallbackCloseRoute
    \/ FallbackReturn
    \/ CommitDeliveries
    \/ ConsumeDemand

\* IRPSolver.__init__ for a request of at most MaxRepeatHorizon days
InitRepeat ==
    /\ Init
    /\ planning_horizon <= MaxRepeatHorizon

SpecRepeat == InitRepeat /\ [][NextRepeat]_vars

-----------------------------------------------------------------------------
(* Two requests in progress at once.  Each call of optimize() has its own  *)
(* locals and its own IRPSolver; the variables hold the request whose code *)
(* is running, parked holds the other one.                                 *)

\* everything a call of optimize() and its IRPSolver own
PlannerState ==
    [ customers          |-> customers,
      vehicles           |-> vehicles,
      planning_horizon   |-> planning_horizon,
      start_date         |-> start_date,
      distance_matrix    |-> distance_matrix,
      inventory          |-> inventory,
      inv_pre            |-> inv_pre,
      day                |-> day,
      pc                 |-> pc,
      customers_to_visit |-> customers_to_visit,
      day_routes         |-> day_routes,
      all_routes         |-> all_routes,
      total_cost         |-> total_cost,
      total_distance     |-> total_distance,
      fb                 |-> fb,
      response           |-> response,
      solver             |-> solver ]

\* a call of optimize() that has just been entered
EntryState(cs, vs, h, sd) ==
    [ customers          |-> cs,
      vehicles           |-> vs,
      planning_horizon   |-> h,
      start_date         |-> sd,
      distance_matrix    |-> << >>,
      inventory          |-> << >>,
      inv_pre            |-> << >>,
      day                |-> 0,
      pc                 |-> "api",
      customers_to_visit |-> << >>,
      day_routes         |-> << >>,
      all_routes         |-> << >>,
      total_cost         |-> 0,
      total_distance     |-> 0,
      fb                 |-> FbIdle,
      response           |-> NoResponse,
      solver             |-> "none" ]

\* the requests that are sent together: at most one customer, one day
ConcRequests ==
    { EntryState(cs, vs, 1, sd) :
        cs \in { c \in CustomerLists : Len(c) <= 1 },
        vs \in { v \in VehicleLists : Len(v) <= 1 },
        sd \in { d \in StartDates \cup BadStartDates : Len(d) \in {0, 10} } }

InitConc ==
    /\ \E r \in ConcRequests :
         /\ customers = r.customers
         /\ vehicles = r.vehicles
         /\ planning_horizon = r.planning_horizon
         /\ start_date = r.start_date
    /\ distance_matrix = << >>
    /\ inventory = << >>
    /\ inv_pre = << >>
    /\ day = 0
    /\ pc = "api"
    /\ customers_to_visit = << >>
    /\ day_routes = << >>
    /\ all_routes = << >>
    /\ total_cost = 0
    /\ total_distance = 0
    /\ fb = FbIdle
    /\ response = NoResponse
    /\ solver = "none"
    /\ client = FirstRun
    /\ parked \in ConcRequests

\* faulty variant of Switch for C21: one inventory map serves both requests
SwitchSharingInventory ==
    /\ parked # NoInstance
    /\ parked' = PlannerState
    /\ customers' = parked.customers
    /\ vehicles' = parked.vehicles
    /\ planning_horizon' = parked.planning_horizon
    /\ start_date' = parked.start_date
    /\ distance_matrix' = parked.distance_matrix
    /\ inventory' = inventory
    /\ inv_pre' = parked.inv_pre
    /\ day' = parked.day
    /\ pc' = parked.pc
    /\ customers_to_visit' = parked.customers_to_visit
    /\ day_routes' = parked.day_routes
    /\ all_routes' = parked.all_routes
    /\ total_cost' = parked.total_cost
    /\ total_distance' = parked.total_distance
    /\ fb' = parked.fb
    /\ response' = parked.response
    /\ solver' = parked.solver
    /\ UNCHANGED client

\* the other request's code runs next
Switch ==
    /\ parked # NoInstance
    /\ parked' = PlannerState
    /\ customers' = parked.customers
    /\ vehicles' = parked.vehicles
    /\ planning_horizon' = parked.planning_horizon
    /\ start_date' = parked.start_date
    /\ distance_matrix' = parked.distance_matrix
    /\ inventory' = parked.inventory
    /\ inv_pre' = parked.inv_pre
    /\ day' = parked.day
    /\ pc' = parked.pc
    /\ customers_to_visit' = parked.customers_to_visit
    /\ day_routes' = parked.day_routes
    /\ all_routes' = parked.all_routes
    /\ total_cost' = parked.total_cost
    /\ total_distance' = parked.total_distance
    /\ fb' = parked.fb
    /\ response' = parked.response
    /\ solver' = parked.solver
    /\ UNCHANGED client

NextConc ==
    \/ Switch
    \/ ApiReject
    \/ ApiConstructSolver
    \/ ApiConstructSolverRaises
    \/ ApiHandleException
    \/ ReturnResponse
    \/ SkipDay
    \/ BeginDay
    \/ SolverReturnsSolution
    \/ SolverReturnsNone
    \/ SolverRaises
    \/ FallbackStartVehicle
    \/ FallbackAddCustomer
    \/ FallbackCloseRoute
    \/ FallbackReturn
    \/ CommitDeliveries
    \/ ConsumeDemand

SpecConc == InitConc /\ [][NextConc]_vars

-----------------------------------------------------------------------------
(* Requests whose customer ids are not positive.  Customer.id is declared  *)
(* int (main.py) and nothing checks its sign.                              *)

\* customer ids as supplied: 0, a negative one, and each with a positive one
AnyIdOrders == { << 0 >>, << -3 >>, << -3, 2 >>, << 0, 2 >>, << 2, -3 >> }

AnyIdCustomerLists ==
    UNION { { [ i \in 1..Len(ids) |-> MakeCustomer(ids[i], pts[i], profs[i]) ] :
                pts \in { f \in [ 1..Len(ids) -> 1..5 ] :
                            \A i \in 1..Len(ids) : f[i] \in PointChoices(i) },
                profs \in [ 1..Len(ids) -> CustomerProfiles ] } :
            ids \in AnyIdOrders }

\* IRPSolver.__init__ on such a request, then the first three lines of solve()
InitIds ==
    /\ customers \in AnyIdCustomerLists
    /\ vehicles \in VehicleLists
    /\ planning_horizon \in HorizonChoices(customers)
    /\ distance_matrix = ComputeDistanceMatrix(customers)
    /\ inventory = [ cid \in Range(CustomerIds(customers)) |->
                       Customer(customers, cid).current_inventory ]
    /\ inv_pre = inventory
    /\ day = 0
    /\ pc = "loop"
    /\ customers_to_visit = << >>
    /\ day_routes = << >>
    /\ all_routes = << >>
    /\ total_cost = 0
    /\ total_distance = 0
    /\ fb = FbIdle
    /\ response = NoResponse
    /\ start_date \in { d \in StartDates : Strptime(d).value.month = 12 }
    /\ solver = "constructed"
    /\ client = FirstRun
    /\ parked = NoInstance

SpecIds == InitIds /\ [][Next]_vars

-----------------------------------------------------------------------------
(* Requests of TourCustomers customers planned for one day: a vehicle's    *)
(* tour then has up to TourCustomers stops.                                *)

\* stock below max, either already urgent or three days from the reorder point
TourProfiles ==
    { p \in CustomerProfiles :
        /\ p.priority = 1
        /\ p.demand_rate = 100
        /\ p.current_inventory < p.max_inventory }

TourCustomerLists ==
    { [ i \in 1..TourCustomers |-> MakeCustomer(ids[i], pts[i], profs[i]) ] :
        ids \in IdOrders(TourCustomers),
        pts \in { f \in [ 1..TourCustomers -> 1..5 ] :
                    \A i \in 1..TourCustomers : f[i] \in PointChoices(i) },
        profs \in [ 1..TourCustomers -> TourProfiles ] }

\* IRPSolver.__init__ on such a request, then the first three lines of solve()
InitTour ==
    /\ customers \in TourCustomerLists
    /\ vehicles \in VehicleLists
    /\ planning_horizon = 1
    /\ distance_matrix = ComputeDistanceMatrix(customers)
    /\ inventory = [ cid \in Range(CustomerIds(customers)) |->
                       Customer(customers, cid).current_inventory ]
    /\ inv_pre = inventory
    /\ day = 0
    /\ pc = "loop"
    /\ customers_to_visit = << >>
    /\ day_routes = << >>
    /\ all_routes = << >>
    /\ total_cost = 0
    /\ total_distance = 0
    /\ fb = FbIdle
    /\ response = NoResponse
    /\ start_date \in { d \in StartDates : Strptime(d).value.month = 12 }
    /\ solver = "constructed"
    /\ client = FirstRun
    /\ parked = NoInstance

SpecTour == InitTour /\ [][Next]_vars

-----------------------------------------------------------------------------
(* Properties *)

\* every route produced so far: reported, returned for the current day, or
\* already built by the fallback for the current day
EmittedRoutes == Range(all_routes) \cup Range(day_routes) \cup Range(fb.routes)

Abs(x) == IF x < 0 THEN -x ELSE x

\* vehicle ids are the positions in the request
VehicleOf(r) == vehicles[r.vehicle_id]

StopQuantitySum(r) == SumSeq([ k \in 1..Len(r.stops) |-> r.stops[k].quantity ])

StopCustomers(r) == [ k \in 1..Len(r.stops) |-> r.stops[k].customer_id ]

\* the selector has run for the day whose data the state holds
SelectionDone == pc \notin {"loop", "done"} \/ day > 0

\* quantity delivered to a customer by the routes of the current day
DeliveredToday(cid) ==
    SumSeq([ i \in 1..Len(day_routes) |->
               SumSeq([ k \in 1..Len(day_routes[i].stops) |->
                          IF day_routes[i].stops[k].customer_id = cid
                          THEN day_routes[i].stops[k].quantity ELSE 0 ]) ])

C2_DistanceWithinRange ==
    \A r \in EmittedRoutes :
        VehicleOf(r).max_distance > 0 =>
            r.total_distance <= VehicleOf(r).max_distance

\* C3: within one day no customer is a stop of two routes, nor twice a stop
\* of one route.
NoDoubleDelivery(routes) ==
    \A i, j \in 1..Len(routes) :
        \A k \in 1..Len(routes[i].stops), l \in 1..Len(routes[j].stops) :
            ( /\ routes[i].day = routes[j].day
              /\ routes[i].stops[k].customer_id = routes[j].stops[l].customer_id )
            => (i = j /\ k = l)

C3_NoDoubleDelivery ==
    /\ NoDoubleDelivery(all_routes)
    /\ NoDoubleDelivery(day_routes)
    /\ NoDoubleDelivery(fb.routes)

\* a day on which two vehicles each run a route
C3_Witness ==
    /\ pc = "commit"
    /\ Len(day_routes) >= 2

\* C4: once the day's stop quantities are added to the inventory map, no
\* customer holds more than its max_inventory.
C4_MaxInventoryAfterCommit ==
    pc = "consume" =>
        \A cid \in DOMAIN inventory :
            inventory[cid] <= Customer(customers, cid).max_inventory

\* C5: after _update_inventory has run at the end of a day, and when solve()
\* returns, no inventory is negative.
C5_InventoryNonNegative ==
    (pc = "done" \/ (pc = "loop" /\ day > 0)) =>
        \A cid \in DOMAIN inventory : inventory[cid] >= 0

\* a day has ended for a customer whose demand exceeded what it held after
\* the day's deliveries
C5_Witness ==
    /\ pc = "loop"
    /\ day > 0
    /\ \E cid \in DOMAIN inventory :
         /\ inv_pre[cid] + DeliveredToday(cid)
              < Customer(customers, cid).demand_rate
         /\ inventory[cid] = 0

\* C6: every stop of every emitted route has a quantity above 0.
C6_StopQuantityPositive ==
    \A r \in EmittedRoutes :
        \A k \in 1..Len(r.stops) : r.stops[k].quantity > 0

\* C7: the total_cost of every emitted route is the vehicle's fixed_cost plus
\* the route's reported total_distance times the vehicle's cost_per_km, up to
\* the rounding of the two report fields (0.005 of cost, 0.005 km of distance).
C7_CostLaw ==
    \A r \in EmittedRoutes :
        Abs(r.total_cost - (VehicleOf(r).fixed_cost * 1000
                            + r.total_distance * VehicleOf(r).cost_per_km))
            <= 5000 + 5 * VehicleOf(r).cost_per_km

\* a reported route, priced per km, whose two rounded fields do not match
\* the law exactly
C7_Witness ==
    \E r \in Range(all_routes) :
        /\ VehicleOf(r).cost_per_km > 0
        /\ r.total_cost # VehicleOf(r).fixed_cost * 1000
                          + r.total_distance * VehicleOf(r).cost_per_km

\* C8: every emitted route has at least one stop, its stops carry the
\* sequences 1..N in list order, and a route the fallback has just closed
\* lists its customers in the order they were visited.
C8_StopSequences ==
    /\ \A r \in EmittedRoutes :
         /\ Len(r.stops) >= 1
         /\ \A k \in 1..Len(r.stops) : r.stops[k].sequence = k
    /\ ( /\ pc = "fb_outer"
         /\ fb.vehicle_index > 0
         /\ fb.route_customers # << >> )
       => StopCustomers(fb.routes[Len(fb.routes)]) = fb.route_customers

\* a reported route with two stops
C8_Witness ==
    \E r \in Range(all_routes) : Len(r.stops) >= 2

\* C9: the selector returns exactly the customers that, on the inventory it
\* read, have positive demand and either at most two days of demand above
\* min_inventory or stock at or below min_inventory, or have zero demand and
\* stock at or below min_inventory.
C9_SelectionRule ==
    SelectionDone =>
        Range(customers_to_visit) =
            { cid \in DOMAIN inv_pre :
                LET c == Customer(customers, cid)
                IN  \/ /\ c.demand_rate > 0
                       /\ \/ inv_pre[cid] - c.min_inventory <= 2 * c.demand_rate
                          \/ inv_pre[cid] <= c.min_inventory
                    \/ /\ c.demand_rate = 0
                       /\ inv_pre[cid] <= c.min_inventory }

\* the selector has taken a customer exactly two days above min_inventory
\* and left another customer out
C9_Witness ==
    /\ pc = "vrp"
    /\ \E cid \in Range(customers_to_visit) :
         LET c == Customer(customers, cid)
         IN  /\ c.demand_rate > 0
             /\ inv_pre[cid] - c.min_inventory = 2 * c.demand_rate
    /\ \E cid \in DOMAIN inv_pre : cid \notin Range(customers_to_visit)

\* C10: the selector's list is ordered by priority descending, then
\* demand_rate descending, then customer_id ascending.
C10_SelectionOrder ==
    SelectionDone =>
        \A i, j \in 1..Len(customers_to_visit) :
            i < j =>
                LET a == Customer(customers, customers_to_visit[i])
                    b == Customer(customers, customers_to_visit[j])
                IN  \/ a.priority > b.priority
                    \/ /\ a.priority = b.priority
                       /\ a.demand_rate > b.demand_rate
                    \/ /\ a.priority = b.priority
                       /\ a.demand_rate = b.demand_rate
                       /\ a.id < b.id

\* customers that are a stop of one of the current day's routes
ServedToday ==
    UNION { Range(StopCustomers(day_routes[i])) : i \in 1..Len(day_routes) }

\* C11: when the day's routes leave a selected customer without a stop, every
\* customer that has a stop has a priority at least as high as every
\* selected customer that has none.
C11_PriorityOrder ==
    pc = "commit" =>
        \A a \in ServedToday :
            \A b \in Range(customers_to_visit) \ ServedToday :
                Customer(customers, a).priority
                    >= Customer(customers, b).priority

\* C12: when a day of the loop has ended, every customer holds what it
\* held when the day's selection read it, plus the day's stop quantities for
\* it, minus its demand_rate, and never less than 0; this includes the days
\* on which nobody is selected or no route is returned.
C12_EndOfDayInventory ==
    (pc = "loop" /\ day > 0) =>
        \A cid \in DOMAIN inventory :
            inventory[cid] =
                Max2(0, inv_pre[cid] + DeliveredToday(cid)
                        - Customer(customers, cid).demand_rate)

\* a day has ended on which a customer holding less than one day of demand
\* received a delivery
C12_Witness ==
    /\ pc = "loop"
    /\ day > 0
    /\ \E cid \in DOMAIN inventory :
         /\ inv_pre[cid] < Customer(customers, cid).demand_rate
         /\ DeliveredToday(cid) > 0

\* what the customer of stop k lacks to max_inventory, on the inventory the
\* day started with
StopNeed(r, k) ==
    Customer(customers, r.stops[k].customer_id).max_inventory
        - inv_pre[r.stops[k].customer_id]

\* the vehicle's capacity less the reported quantities of the stops before k
StopRemaining(r, k) ==
    VehicleOf(r).capacity
        - SumSeq([ j \in 1..(k - 1) |-> r.stops[j].quantity ])

CumulativeDays == << 0, 31, 59, 90, 120, 151, 181, 212, 243, 273, 304, 334 >>

\* the day number of a date in the proleptic Gregorian calendar
Ordinal(dt) ==
    LET y == dt.year - 1
    IN  y * 365 + (y \div 4) - (y \div 100) + (y \div 400)
        + CumulativeDays[dt.month]
        + (IF dt.month > 2 /\ IsLeap(dt.year) THEN 1 ELSE 0)
        + dt.day

\* position of a vehicle in request.vehicles
VehiclePosition(vid) == CHOOSE i \in 1..Len(vehicles) : vehicles[i].id = vid

\* the route's date is the zero-padded ISO date n days after start_date
DatedAfter(r, n) ==
    /\ Len(r.date) = 10
    /\ Strptime(r.date).ok
    /\ Ordinal(Strptime(r.date).value)
         = Ordinal(Strptime(start_date).value) + n

\* C14: along the routes recorded so far, day never decreases, and routes of
\* one day follow the order of their vehicles in the request, no vehicle
\* twice; the routes returned for the day with 0-based index d carry day
\* d + 1 and the date d days after start_date, and so does every route of
\* the response for its day.
C14_RouteOrder ==
    /\ \A i, j \in 1..Len(all_routes) :
         i < j =>
            /\ all_routes[i].day <= all_routes[j].day
            /\ all_routes[i].day = all_routes[j].day =>
                 VehiclePosition(all_routes[i].vehicle_id)
                    < VehiclePosition(all_routes[j].vehicle_id)
    /\ \A r \in Range(all_routes) : r.day \in 1..planning_horizon
    /\ pc = "commit" =>
         /\ \A r \in Range(day_routes) : r.day = day + 1 /\ DatedAfter(r, day)
         /\ \A i, j \in 1..Len(day_routes) :
              i < j => VehiclePosition(day_routes[i].vehicle_id)
                          < VehiclePosition(day_routes[j].vehicle_id)
    /\ pc = "done" =>
         \A r \in Range(response.routes) : DatedAfter(r, r.day - 1)

\* the response lists two routes of one day and a route of the next day,
\* which falls in another month than start_date
C14_Witness ==
    /\ pc = "done"
    /\ \E i, j, k \in 1..Len(response.routes) :
         /\ i < j
         /\ response.routes[i].day = response.routes[j].day
         /\ response.routes[k].day = 2
         /\ Strptime(response.routes[k].date).value.month
              # Strptime(start_date).value.month

\* the response of a run that planned nothing
EmptyPlan ==
    /\ response.kind = "response"
    /\ response.success
    /\ response.routes = << >>
    /\ response.total_cost = 0
    /\ response.total_distance = 0

\* C15: with an empty customer list solve() never enters a day's planning
\* and returns success with no route and zero cost and distance, whatever
\* the vehicles and the horizon.
C15_EmptyCustomersNoOp ==
    customers = << >> =>
        /\ pc \in {"loop", "done"}
        /\ pc = "done" => EmptyPlan

\* solve() has returned for no customers, some vehicles and the longest
\* horizon
C15_Witness ==
    /\ pc = "done"
    /\ customers = << >>
    /\ vehicles # << >>
    /\ planning_horizon = MaxHorizon
    /\ day = MaxHorizon

\* the inventory map as __init__ builds it
InitialInventory ==
    [ cid \in Range(CustomerIds(customers)) |->
        Customer(customers, cid).current_inventory ]

\* C18: with planning_horizon = 0 solve() plans no day, leaves the inventory
\* map as built from current_inventory, and returns success with no route
\* and zero cost and distance.
C18_ZeroHorizon ==
    planning_horizon = 0 =>
        /\ pc \in {"loop", "done"}
        /\ inventory = InitialInventory
        /\ all_routes = << >>
        /\ pc = "done" => EmptyPlan

\* solve() has returned for a zero horizon although a customer was due and
\* a vehicle was there
C18_Witness ==
    /\ pc = "done"
    /\ planning_horizon = 0
    /\ vehicles # << >>
    /\ GetCustomersNeedingDelivery(customers, inventory) # << >>

\* the structured refusal carrying a message
Refusal(msg) ==
    [ kind |-> "response",
      success |-> FALSE,
      message |-> << msg >>,
      total_cost |-> 0,
      total_distance |-> 0,
      routes |-> << >> ]

\* C16: a request without customers is answered by success=false, the
\* message "No customers provided", zero totals and no routes, and no
\* IRPSolver is constructed or run for it.
C16_EmptyCustomersOutcome ==
    customers = << >> =>
        /\ solver = "none"
        /\ pc \in {"api", "done"}
        /\ pc = "done" => response = Refusal("No customers provided")

\* the endpoint has answered a request without customers that has vehicles
C16_Witness ==
    /\ pc = "done"
    /\ customers = << >>
    /\ vehicles # << >>
    /\ response.kind = "response"

\* C17: a request with customers and without vehicles is answered by
\* success=false, the message "No vehicles provided", zero totals and no
\* routes, and no IRPSolver is constructed or run for it.
C17_NoVehiclesOutcome ==
    (customers # << >> /\ vehicles = << >>) =>
        /\ solver = "none"
        /\ pc \in {"api", "done"}
        /\ pc = "done" => response = Refusal("No vehicles provided")

\* the endpoint has answered a request of two customers and no vehicle
C17_Witness ==
    /\ pc = "done"
    /\ Len(customers) = 2
    /\ vehicles = << >>
    /\ response.kind = "response"

\* C19: IRPSolver(...) is only ever called with a start_date that parses as
\* a date of the form YYYY-MM-DD.
C19_BadDateNeverReachesCore ==
    solver # "none" => Strptime(start_date).ok

C22_SymmetricZeroDiagonal ==
    \A i \in DOMAIN distance_matrix :
        /\ distance_matrix[i][i] = 0
        /\ \A j \in DOMAIN distance_matrix :
              distance_matrix[i][j] = distance_matrix[j][i]

\* a matrix over the depot and two customers at three different places,
\* with legs of different lengths
C22_Witness ==
    /\ DOMAIN distance_matrix = 0..2
    /\ distance_matrix[0][1] > 0
    /\ distance_matrix[1][2] > 0
    /\ distance_matrix[0][2] > 0
    /\ distance_matrix[0][1] # distance_matrix[1][2]

\* C23: the depot is node 0 of the distance matrix and every customer has a
\* node of its own: the matrix has one row and one column per customer plus
\* one for the depot, row 0 and column 0 hold the distances from and to the
\* depot, and each customer's row holds the distances from that customer.
C23_DepotIsNodeZero ==
    LET n == Len(customers)
        node(cid) == IdIndex(customers, cid)
        place(k) == IF k = 0 THEN WarehousePoint
                    ELSE Customer(customers,
                                  CHOOSE cid \in Range(CustomerIds(customers)) :
                                      node(cid) = k).point
    IN  /\ DOMAIN distance_matrix = 0..n
        /\ \A i \in 0..n : DOMAIN distance_matrix[i] = 0..n
        /\ \A cid \in Range(CustomerIds(customers)) : node(cid) \in 1..n
        /\ \A c1, c2 \in Range(CustomerIds(customers)) :
              c1 # c2 => node(c1) # node(c2)
        /\ \A i, j \in 0..n :
              distance_matrix[i][j] = HaversineMeters(place(i), place(j))

\* customers selected on the day that has just ended and left without a stop
SkippedYesterday == Range(customers_to_visit) \ ServedToday

\* C24: when a day has ended and another day of the horizon follows, every
\* customer that was selected on the ended day and got no stop is selected
\* by the selector applied to the inventory map as it now stands; and what
\* the selector returned for a day is its value on that day's inventory map.
C24_SkippedSelectedAgain ==
    /\ (pc = "loop" /\ day >= 1 /\ day < planning_horizon) =>
          \A cid \in SkippedYesterday :
              cid \in Range(GetCustomersNeedingDelivery(customers, inventory))
    /\ pc = "vrp" =>
          customers_to_visit = GetCustomersNeedingDelivery(customers, inventory)

\* a day has ended with a selected customer left without a stop, and
\* another day follows
C24_Witness ==
    /\ pc = "loop"
    /\ day >= 1
    /\ day < planning_horizon
    /\ SkippedYesterday # {}

\* every vehicle of the fleet can carry all customers' max_inventory at once
\* and has no range limit
CapableFleet ==
    /\ vehicles # << >>
    /\ \A i \in 1..Len(vehicles) :
          /\ vehicles[i].max_distance = 0
          /\ vehicles[i].capacity >=
                SumSeq([ k \in 1..Len(customers) |-> customers[k].max_inventory ])

\* C25: with a capable fleet, when the day's deliveries have been applied,
\* every customer that was selected at the start of the day with an
\* inventory below max_inventory has a stop on the day's routes and its
\* inventory is max_inventory.
C25_CapableVehicleRefills ==
    (pc = "consume" /\ CapableFleet) =>
        \A cid \in Range(customers_to_visit) :
            inv_pre[cid] < Customer(customers, cid).max_inventory =>
                /\ cid \in ServedToday
                /\ inventory[cid] = Customer(customers, cid).max_inventory

\* length in metres of depot -> stops -> depot for a stop order, each leg
\* read once from the distance matrix
ClosedTour(order) ==
    LET n == Len(order)
        at(k) == IF k = 0 \/ k = n + 1 THEN 0 ELSE IdIndex(customers, order[k])
    IN  SumSeq([ k \in 1..(n + 1) |-> distance_matrix[at(k - 1)][at(k)] ])

FeasibleCandidates ==
    { cid \in fb.unassigned :
        Min2(Min2(Customer(customers, cid).max_inventory - inventory[cid],
                  fb.remaining_capacity),
             Customer(customers, cid).max_inventory) > 0 }

\* distance in the matrix from the current location of the tour to a customer
FromCurrent(cid) ==
    distance_matrix[IdIndex(customers, fb.current_location)]
                   [IdIndex(customers, cid)]

\* C27: whenever a customer is appended to the tour under construction, it
\* is a feasible candidate at minimum distance from the current location,
\* and among the candidates at that distance it has the lowest customer id.
C27_NearestLowestId ==
    [][ (pc = "fb_inner"
           /\ Len(fb'.route_customers) = Len(fb.route_customers) + 1) =>
          LET best == fb'.route_customers[Len(fb'.route_customers)]
          IN  /\ best \in FeasibleCandidates
              /\ \A cid \in FeasibleCandidates :
                    \/ FromCurrent(best) < FromCurrent(cid)
                    \/ /\ FromCurrent(best) = FromCurrent(cid)
                       /\ best <= cid ]_vars

\* a stop order with the stops at positions i..j reversed
ReverseSegment(order, i, j) ==
    [ k \in 1..Len(order) |->
        IF k >= i /\ k <= j THEN order[i + j - k] ELSE order[k] ]

\* C28: every route of the day is a local optimum of 2-opt: no reversal of
\* a contiguous segment of its stop order gives a strictly shorter
\* depot -> stops -> depot distance.
C28_TwoOptLocalOptimum ==
    pc = "commit" =>
        \A r \in 1..Len(day_routes) :
            LET order == StopCustomers(day_routes[r])
            IN  \A i, j \in 1..Len(order) :
                    i < j =>
                        ClosedTour(ReverseSegment(order, i, j))
                            >= ClosedTour(order)

====
